---- MODULE Spec2Model ----
(***************************************************************************)
(* Model of import_communal_payments.py: ImportCommunalPaymentsService.run *)
(* (read file -> parse rows -> upsert inside transaction.atomic() ->       *)
(* notify) and of the row validator build_payment.                         *)
(*                                                                         *)
(* Text is a sequence of one-character strings, so that strip(), lower(),  *)
(* replace() and split() are computed and not assumed.  A cell is a record *)
(* [t, s, n, d]: t is the Python type of the value ("str", "none", "int",  *)
(* "dt"), s the text of a str, n the value of an int, d the <<day, month,  *)
(* year>> of a datetime.datetime.                                          *)
(***************************************************************************)
EXTENDS Integers, Sequences, FiniteSets, TLC

\* ------------------------------------------------------------------ bounds
MaxDataRows == 2 \* lines of a file after its first line, the header
MaxRuns == 2 \* runs of the service, one after the other, on the same store

\* ------------------------------------------------------- class attributes
cols == 8
start_row == 2
col_ext_number == 0
col_month == 1
col_building == 2
col_apartment == 3
col_account_number == 4
col_email == 5
col_description == 6
col_price == 7

\* --------------------------------------------------------------- text
Digits == <<"0", "1", "2", "3", "4", "5", "6", "7", "8", "9">>

IsDigit(c) == \E n \in 1..10 : Digits[n] = c

DigitVal(c) == (CHOOSE n \in 1..10 : Digits[n] = c) - 1

IsSpace(c) == c = " "

\* str.lower() on the letters the inputs use
LowerChar(c) ==
    CASE c = "A" -> "a"
      [] c = "C" -> "c"
      [] c = "E" -> "e"
      [] c = "S" -> "s"
      [] c = "T" -> "t"
      [] c = "V" -> "v"
      [] c = "X" -> "x"
      [] c = "N" -> "n"
      [] OTHER -> c

Lower(s) == [n \in 1..Len(s) |-> LowerChar(s[n])]

RECURSIVE LStrip(_)
LStrip(s) == IF s # <<>> /\ IsSpace(Head(s)) THEN LStrip(Tail(s)) ELSE s

RECURSIVE RStrip(_)
RStrip(s) ==
    IF s # <<>> /\ IsSpace(s[Len(s)]) THEN RStrip(SubSeq(s, 1, Len(s) - 1)) ELSE s

\* str.strip()
Strip(s) == RStrip(LStrip(s))

\* str.replace(a, b) for one-character a and b
Replace(s, a, b) == [n \in 1..Len(s) |-> IF s[n] = a THEN b ELSE s[n]]

\* str.split(sep) for a one-character sep: always at least one part
RECURSIVE SplitAcc(_, _, _, _)
SplitAcc(s, sep, cur, acc) ==
    IF s = <<>> THEN Append(acc, cur)
    ELSE IF Head(s) = sep THEN SplitAcc(Tail(s), sep, <<>>, Append(acc, cur))
    ELSE SplitAcc(Tail(s), sep, Append(cur, Head(s)), acc)

Split(s, sep) == SplitAcc(s, sep, <<>>, <<>>)

AllDigits(s) == \A n \in 1..Len(s) : IsDigit(s[n])

RECURSIVE ParseInt(_)
ParseInt(s) ==
    IF s = <<>> THEN 0 ELSE ParseInt(SubSeq(s, 1, Len(s) - 1)) * 10 + DigitVal(s[Len(s)])

RECURSIVE IntToStr(_)
IntToStr(n) ==
    IF n < 10 THEN <<Digits[n + 1]>> ELSE Append(IntToStr(n \div 10), Digits[(n % 10) + 1])

RECURSIVE ZeroPad(_, _)
ZeroPad(s, w) == IF Len(s) >= w THEN s ELSE ZeroPad(<<"0">> \o s, w)

\* ------------------------------------------------------------------ cells
StrCell(s) == [t |-> "str", s |-> s, n |-> 0, d |-> <<>>]
NoneCell == [t |-> "none", s |-> <<>>, n |-> 0, d |-> <<>>]
IntCell(n) == [t |-> "int", s |-> <<>>, n |-> n, d |-> <<>>]
DtCell(dd, mm, yy) == [t |-> "dt", s |-> <<>>, n |-> 0, d |-> <<dd, mm, yy>>]

\* str(value)
Str(c) ==
    CASE c.t = "str" -> c.s
      [] c.t = "none" -> <<"N", "o", "n", "e">>
      [] c.t = "int" -> IntToStr(c.n)
      [] c.t = "dt" ->
            ZeroPad(IntToStr(c.d[3]), 4) \o <<"-">> \o ZeroPad(IntToStr(c.d[2]), 2)
                \o <<"-">> \o ZeroPad(IntToStr(c.d[1]), 2)
                \o <<" ", "0", "0", ":", "0", "0", ":", "0", "0">>

\* bool(value) is False ("not value")
Falsy(c) ==
    \/ c.t = "none"
    \/ c.t = "str" /\ c.s = <<>>
    \/ c.t = "int" /\ c.n = 0

\* ------------------------------------------------- Decimal() and strptime()
\* Decimal(text) on [sign] digits [. digits]; the price cells of the inputs
\* use no exponent, NaN or Infinity form.
ParseDecimal(s) ==
    LET signed == s # <<>> /\ Head(s) \in {"-", "+"}
        body == IF signed THEN Tail(s) ELSE s
        parts == Split(body, ".")
        ip == parts[1]
        fp == IF Len(parts) = 2 THEN parts[2] ELSE <<>>
        ok == /\ Len(parts) \in {1, 2}
              /\ AllDigits(ip) /\ AllDigits(fp)
              /\ Len(ip) + Len(fp) > 0
    IN  IF ok
        THEN [ok |-> TRUE, neg |-> signed /\ Head(s) = "-",
              mant |-> ParseInt(ip \o fp), places |-> Len(fp)]
        ELSE [ok |-> FALSE, neg |-> FALSE, mant |-> 0, places |-> 0]

IsLeap(y) == (y % 4 = 0 /\ y % 100 # 0) \/ y % 400 = 0

DaysIn(m, y) ==
    IF m = 2 THEN (IF IsLeap(y) THEN 29 ELSE 28)
    ELSE IF m \in {4, 6, 9, 11} THEN 30 ELSE 31

\* datetime.datetime.strptime(text, "%d-%m-%Y")
Strptime(s) ==
    LET parts == Split(s, "-")
        shape == /\ Len(parts) = 3
                 /\ Len(parts[1]) \in {1, 2} /\ AllDigits(parts[1])
                 /\ Len(parts[2]) \in {1, 2} /\ AllDigits(parts[2])
                 /\ Len(parts[3]) = 4 /\ AllDigits(parts[3])
        dd == ParseInt(parts[1])
        mm == ParseInt(parts[2])
        yy == ParseInt(parts[3])
        ok == shape /\ yy >= 1 /\ mm \in 1..12 /\ dd >= 1 /\ dd <= DaysIn(mm, yy)
    IN  IF ok THEN [ok |-> TRUE, d |-> <<dd, mm, yy>>] ELSE [ok |-> FALSE, d |-> <<>>]

\* ------------------------------------------------------ the store's world
\* accounts.User rows (email is unique)
Users ==
    { [id |-> "u1", email |-> <<"a", "@", "x">>],
      [id |-> "u2", email |-> <<"b", "@", "x">>] }

\* buildings.Apartment rows, each with the residents of its lodgers, in the
\* order apartment.lodgers.all() yields them
Apartments ==
    { [id |-> "ap1", account_number |-> <<"7">>, lodgers |-> <<"r1", "r2">>],
      [id |-> "ap2", account_number |-> <<"8">>, lodgers |-> <<>>] }

\* Currency.objects.get(code=settings.S1_DEFAULT_COMMUNAL_PAYMENT_CURRENCY_CODE)
currency == "CUR"

ApartmentById(a) == CHOOSE ap \in Apartments : ap.id = a

\* ------------------------------------------------ CommunalPayment dataclass
NoPayment ==
    [line |-> 0, email |-> <<>>, payer |-> "", account_number |-> <<>>, apartment |-> "",
     date |-> <<>>, ext_number |-> <<>>, price |-> ParseDecimal(<<>>),
     building |-> <<>>, description |-> <<>>, currency |-> ""]

Result(kind, check, i, value, payment) ==
    [kind |-> kind, check |-> check, line |-> i, value |-> value, payment |-> payment]

\* the dataclass constructor followed by __post_init__: the payer is resolved
\* first, then the apartment; `line` records the row the record came from
NewCommunalPayment(i, email, account_number, date, ext_number, price, description, building) ==
    LET payers == {u \in Users : u.email = email}
        aparts == {a \in Apartments : a.account_number = account_number}
    IN  IF payers = {}
        THEN Result("ImportPaymentException", "payer", i, email, NoPayment)
        ELSE IF aparts = {}
        THEN Result("ImportPaymentException", "apartment", i, account_number, NoPayment)
        ELSE Result("payment", "", i, <<>>,
                    [line |-> i, email |-> email,
                     payer |-> (CHOOSE u \in payers : TRUE).id,
                     account_number |-> account_number,
                     apartment |-> (CHOOSE a \in aparts : TRUE).id,
                     date |-> date, ext_number |-> ext_number, price |-> price,
                     building |-> building, description |-> description,
                     currency |-> currency])

\* line[col] of the code, whose columns count from 0
Cell(line, col) == line[col + 1]

\* ImportCommunalPaymentsService.build_payment; a result of kind
\* "AttributeError" is the exception of date.strip() on a value with no strip
build_payment(line, i) ==
    IF Len(line) # cols
    THEN Result("ParseFileError", "cols", i, IntToStr(Len(line)), NoPayment)
    ELSE
    LET price_str == Replace(Strip(Str(Cell(line, col_price))), ",", ".")
        price == ParseDecimal(price_str)
        date == Cell(line, col_month)
        parsed == Strptime(Lower(Strip(date.s)))
    IN  IF ~price.ok
        THEN Result("ParseFileError", "price", i, price_str, NoPayment)
        ELSE IF date.t # "dt" /\ date.t # "str"
        THEN Result("AttributeError", "date", i, Str(date), NoPayment)
        ELSE IF date.t # "dt" /\ ~parsed.ok
        THEN Result("ParseFileError", "date", i, Lower(Strip(date.s)), NoPayment)
        ELSE NewCommunalPayment(
                i,
                Lower(Strip(Str(Cell(line, col_email)))),
                Strip(Str(Cell(line, col_account_number))),
                IF date.t = "dt" THEN date.d ELSE parsed.d,
                Lower(Strip(Str(Cell(line, col_ext_number)))),
                price,
                Lower(Strip(Str(Cell(line, col_description)))),
                Lower(Strip(Str(Cell(line, col_building)))))

\* ------------------------------------------------------------- the inputs
Line8(ext, date, account, email, description, price) ==
    <<ext, date, StrCell(<<"b">>), StrCell(<<"1">>), account, email, description, price>>

EmailA == <<"a", "@", "x">>
EmailB == <<"b", "@", "x">>
EmailZ == <<"z", "@", "x">>
Date1 == <<"1", "-", "1", "-", "2", "0", "0", "1">>
Date1Padded == <<" ", "0", "1", "-", "0", "1", "-", "2", "0", "0", "1">>
Date2 == <<"2", "-", "1", "-", "2", "0", "0", "1">>
DateIso == <<"2", "0", "0", "1", "-", "0", "1", "-", "0", "1">>

\* valid; same payer, apartment, date and ext_number as RowA2 once normalised
RowA ==
    Line8(StrCell(<<" ", "E">>), StrCell(Date1), StrCell(<<"7">>),
          StrCell(<<"A", "@", "x", " ">>), StrCell(<<"D">>), StrCell(<<"1", ",", "5">>))
RowA2 ==
    Line8(StrCell(<<"e">>), StrCell(Date1Padded), StrCell(<<" ", "7">>),
          StrCell(EmailA), StrCell(<<"g">>), StrCell(<<"2">>))
\* valid, another payer, apartment and date
RowB ==
    Line8(StrCell(<<"e">>), StrCell(Date2), StrCell(<<"8">>),
          StrCell(EmailB), StrCell(<<"d">>), StrCell(<<"1", ".", "5">>))
\* 7 columns, none of them usable
RowShort == [n \in 1..7 |-> StrCell(<<"x">>)]
\* bad price and bad date
RowBadPriceDate ==
    Line8(StrCell(<<"e">>), StrCell(DateIso), StrCell(<<"7">>),
          StrCell(EmailA), StrCell(<<"d">>), StrCell(<<"a", "b", "c">>))
\* bad date and unknown payer
RowBadDateEmail ==
    Line8(StrCell(<<"e">>), StrCell(DateIso), StrCell(<<"7">>),
          StrCell(EmailZ), StrCell(<<"d">>), StrCell(<<"2">>))
\* unknown payer and unknown apartment
RowBadEmailAccount ==
    Line8(StrCell(<<"e">>), StrCell(Date1), StrCell(<<"9">>),
          StrCell(EmailZ), StrCell(<<"d">>), StrCell(<<"2">>))
\* unknown apartment
RowBadAccount ==
    Line8(StrCell(<<"e">>), StrCell(Date1), StrCell(<<"9">>),
          StrCell(EmailA), StrCell(<<"d">>), StrCell(<<"2">>))

\* csv.reader yields lists of str, of any length
CsvRows == {RowA, RowA2, RowB, RowBadPriceDate, RowBadEmailAccount}

\* what line 1 holds: a line of titles (XlsxHeaders and SampleRows have a
\* first line that would be a valid payment)
CsvHeaders == {RowShort}

\* a sheet row with a native date, a numeric account number and price; the
\* same payer, apartment, date and ext_number as RowA
XRowA ==
    Line8(StrCell(<<"e">>), DtCell(1, 1, 2001), IntCell(7),
          StrCell(EmailA), StrCell(<<"h">>), IntCell(3))
\* the date cell is empty
XRowNoDate ==
    Line8(StrCell(<<"e">>), NoneCell, StrCell(<<"7">>),
          StrCell(EmailA), StrCell(<<"d">>), StrCell(<<"2">>))
\* the date cell is a number, the payer is unknown
XRowIntDate ==
    Line8(StrCell(<<"e">>), IntCell(5), StrCell(<<"7">>),
          StrCell(EmailZ), StrCell(<<"d">>), StrCell(<<"2">>))
\* the first cell is empty
XRowBlank ==
    Line8(NoneCell, StrCell(Date1), StrCell(<<"7">>),
          StrCell(EmailA), StrCell(<<"d">>), StrCell(<<"2">>))

\* sheet.cell(...).value is a str, a number, a datetime or None
XlsxRows == {XRowA, XRowNoDate, XRowIntDate, XRowBlank}

XlsxHeaders == {RowB}

SeqsUpTo(S, n) == UNION {[1..m -> S] : m \in 0..n}

\* an empty file, or a first line and up to MaxDataRows lines after it
Contents(headers, rows) ==
    {<<>>} \cup {<<h>> \o r : h \in headers, r \in SeqsUpTo(rows, MaxDataRows)}

NameCsv == <<"a", ".", "c", "s", "v">>
NameCsvUpper == <<"a", ".", "C", "S", "V">>
NameXlsx == <<"a", ".", "x", "l", "s", "x">>
NameXlsxMixed == <<"a", ".", "b", ".", "X", "l", "s", "x">>
NameTxt == <<"a", ".", "t", "x", "t">>
NameTxtUpper == <<"a", ".", "c", "s", "v", ".", "T", "X", "T">>
NameNoExt == <<"a">>

File(kind, name, readable, rows) ==
    [kind |-> kind, name |-> name, readable |-> readable, rows |-> rows]

\* a longer file: every kind of rejected line, two lines with one key
SampleRows == <<RowA, RowA, RowBadDateEmail, RowA2, RowB, RowBadAccount, RowShort>>

\* self.file: kind is "str" (a path), "uploaded" (an InMemoryUploadedFile) or
\* "other" (anything else); readable is FALSE when open(), decode() or
\* load_workbook() raises, or the workbook has no active sheet; rows is what
\* the file holds, list of lines or sheet
Files ==
    {File("str", NameCsv, TRUE, r) : r \in Contents(CsvHeaders, CsvRows)}
    \cup {File("str", NameXlsx, TRUE, r) : r \in Contents(XlsxHeaders, XlsxRows)}
    \cup { File("uploaded", NameCsvUpper, TRUE, SampleRows),
           File("uploaded", NameXlsxMixed, TRUE, <<XRowA, XRowA>>),
           File("str", NameTxt, TRUE, SampleRows),
           File("uploaded", NameTxtUpper, TRUE, SampleRows),
           File("str", NameNoExt, TRUE, SampleRows),
           File("str", NameCsv, FALSE, SampleRows),
           File("uploaded", NameXlsx, FALSE, SampleRows),
           File("other", NameCsv, TRUE, SampleRows) }

NoFile == File("none", <<>>, FALSE, <<>>)

\* ------------------------------------------------------------ the readers
\* get_data_from_cvs: the lines of the file
get_data_from_cvs(f) == f.rows

\* get_data_from_xlsx: the rows of the sheet, 8 cells each, up to the first
\* row whose first cell is empty
RECURSIVE get_data_from_xlsx_rows(_)
get_data_from_xlsx_rows(rows) ==
    IF rows = <<>> \/ Falsy(Head(rows)[1]) THEN <<>>
    ELSE <<Head(rows)>> \o get_data_from_xlsx_rows(Tail(rows))

get_data_from_xlsx(f) == get_data_from_xlsx_rows(f.rows)

\* func with a reader for a third extension
func_with_txt == {<<"c", "s", "v">>, <<"x", "l", "s", "x">>, <<"t", "x", "t">>}

\* the keys of the dispatch table func
func == {<<"c", "s", "v">>, <<"x", "l", "s", "x">>}

\* name.split(".")[-1].lower()
Extension(name) == LET parts == Split(name, ".") IN Lower(parts[Len(parts)])

\* ------------------------------------------------------------------ state
VARIABLES
    store,            \* committed payments.CommunalPayment rows
    tx,               \* the rows as the open transaction sees them
    file,             \* self.file
    data,             \* the local `data` of import_data_from_file
    i,                \* the index of enumerate(data, 1)
    payments,         \* self.payments
    errors,           \* self.errors
    created_payments, \* the local list of save_payments
    j,                \* position of the loops of save_payments (1-based)
    l,                \* 0: payer of created_payments[j] not yet notified;
                      \* >= 1: next lodger of its apartment to notify
    events,           \* what the run did outside itself, in order:
                      \* notification calls made and the commit
    pc,               \* where the run is
    outcome,          \* "returned", or the exception that left run()
    runs,             \* runs started so far
    storeBefore,      \* store when the run started
    rerun             \* the run repeats the file of a run that returned

vars ==
    <<store, tx, file, data, i, payments, errors, created_payments, j, l, events,
      pc, outcome, runs, storeBefore, rerun>>

SameKey(r, p) ==
    /\ r.payer = p.payer
    /\ r.apartment = p.apartment
    /\ r.date = p.date
    /\ r.ext_number = p.ext_number

NextId(db) ==
    IF db = {} THEN 1 ELSE 1 + (CHOOSE n \in {r.id : r \in db} : \A r \in db : r.id <= n)

\* objects.create(...) in the place of update_or_create
update_or_create_always_creates(db, p) ==
    LET fresh == [id |-> NextId(db), payer |-> p.payer, apartment |-> p.apartment,
                  date |-> p.date, ext_number |-> p.ext_number,
                  currency |-> p.currency, price |-> p.price,
                  description |-> p.description]
    IN  [ok |-> TRUE, db |-> db \cup {fresh}, payment |-> fresh]

\* objects.update_or_create(payer, apartment, date, ext_number, defaults=...)
\* on the rows db: the new rows and the instance returned, or
\* MultipleObjectsReturned when several rows have the key
update_or_create(db, p) ==
    LET found == {r \in db : SameKey(r, p)}
        fresh == [id |-> NextId(db), payer |-> p.payer, apartment |-> p.apartment,
                  date |-> p.date, ext_number |-> p.ext_number,
                  currency |-> p.currency, price |-> p.price,
                  description |-> p.description]
        old == CHOOSE r \in found : TRUE
        new == [old EXCEPT !.currency = p.currency, !.price = p.price,
                           !.description = p.description]
    IN  IF found = {} THEN [ok |-> TRUE, db |-> db \cup {fresh}, payment |-> fresh]
        ELSE IF Cardinality(found) = 1
        THEN [ok |-> TRUE, db |-> (db \ {old}) \cup {new}, payment |-> new]
        ELSE [ok |-> FALSE, db |-> db, payment |-> old]

\* CommunalPayment.save_payment
save_payment(db, p) == update_or_create(db, p)

\* a row left by an earlier import under another default currency
OldRow ==
    [id |-> 1, payer |-> "u1", apartment |-> "ap1", date |-> <<1, 1, 2001>>,
     ext_number |-> <<"e">>, currency |-> "OLD",
     price |-> ParseDecimal(<<"9">>), description |-> <<"o">>]

Init ==
    /\ store \in {{}, {OldRow}}
    /\ tx = store
    /\ file = NoFile
    /\ data = <<>>
    /\ i = 0
    /\ payments = <<>>
    /\ errors = <<>>
    /\ created_payments = <<>>
    /\ j = 0
    /\ l = 0
    /\ events = <<>>
    /\ pc = "idle"
    /\ outcome = "none"
    /\ runs = 0
    /\ storeBefore = store
    /\ rerun = FALSE

FileTypeError == Result("FileTypeError", "file", 0, <<>>, NoPayment)

\* ImportCommunalPaymentsService(file).run() is called
Construct(f) ==
    /\ pc \in {"idle", "done"}
    /\ runs < MaxRuns
    /\ file' = f
    /\ rerun' = (pc = "done" /\ outcome = "returned" /\ f = file)
    /\ data' = <<>>
    /\ i' = 0
    /\ payments' = <<>>
    /\ errors' = <<>>
    /\ created_payments' = <<>>
    /\ j' = 0
    /\ l' = 0
    /\ events' = <<>>
    /\ pc' = "import"
    /\ outcome' = "running"
    /\ runs' = runs + 1
    /\ storeBefore' = store
    /\ UNCHANGED <<store, tx>>

Start == \E f \in Files : Construct(f)

\* the exception of the try block is caught: errors.append(FileTypeError(e)); return
CatchAsFileTypeError ==
    /\ errors' = Append(errors, FileTypeError)
    /\ pc' = "save"
    /\ UNCHANGED <<store, tx, file, data, i, payments, created_payments, j, l, events,
                   outcome, runs, storeBefore, rerun>>

\* func[...] raises KeyError: the extension is not a key of func
ReadUnknownExtension ==
    /\ pc = "import"
    /\ file.kind \in {"str", "uploaded"}
    /\ Extension(file.name) \notin func
    /\ CatchAsFileTypeError

\* the reader raises
ReadRaises ==
    /\ pc = "import"
    /\ file.kind \in {"str", "uploaded"}
    /\ Extension(file.name) \in func
    /\ ~file.readable
    /\ CatchAsFileTypeError

\* the reader returns the rows
ReadData ==
    /\ pc = "import"
    /\ file.kind \in {"str", "uploaded"}
    /\ Extension(file.name) \in func
    /\ file.readable
    /\ data' = IF Extension(file.name) = <<"c", "s", "v">>
               THEN get_data_from_cvs(file) ELSE get_data_from_xlsx(file)
    /\ i' = 1
    /\ pc' = "parse"
    /\ UNCHANGED <<store, tx, file, payments, errors, created_payments, j, l, events,
                   outcome, runs, storeBefore, rerun>>

\* the exception leaves run() with no atomic block around the upserts: what
\* was written stays
RaiseKeepsWrites(exc) ==
    /\ pc' = "done"
    /\ outcome' = exc
    /\ store' = tx
    /\ UNCHANGED <<tx, file, data, i, payments, errors, created_payments, j, l,
                   events, runs, storeBefore, rerun>>

\* the exception leaves run(); an open transaction.atomic() block rolls back
Raise(exc) ==
    /\ pc' = "done"
    /\ outcome' = exc
    /\ tx' = store
    /\ UNCHANGED <<store, file, data, i, payments, errors, created_payments, j, l,
                   events, runs, storeBefore, rerun>>

\* neither a str nor an InMemoryUploadedFile: the ValueError is built and not
\* raised, nothing is caught, and enumerate(data, 1) reads the unbound local
ReadOtherKind ==
    /\ pc = "import"
    /\ file.kind \notin {"str", "uploaded"}
    /\ Raise("UnboundLocalError")

\* i < self.start_row: continue
SkipLine ==
    /\ pc = "parse"
    /\ i <= Len(data)
    /\ i < start_row
    /\ i' = i + 1
    /\ UNCHANGED <<store, tx, file, data, payments, errors, created_payments, j, l,
                   events, pc, outcome, runs, storeBefore, rerun>>

\* one turn of the loop: the record is appended to self.payments, or the
\* ImportPaymentException (ParseFileError included) to self.errors
ParseLine ==
    /\ pc = "parse"
    /\ i <= Len(data)
    /\ i >= start_row
    /\ LET r == build_payment(data[i], i)
       IN  /\ r.kind \in {"payment", "ParseFileError", "ImportPaymentException"}
           /\ payments' = IF r.kind = "payment" THEN Append(payments, r.payment)
                          ELSE payments
           /\ errors' = IF r.kind = "payment" THEN errors ELSE Append(errors, r)
    /\ i' = i + 1
    /\ UNCHANGED <<store, tx, file, data, created_payments, j, l, events, pc, outcome,
                   runs, storeBefore, rerun>>

\* build_payment raises what `except ImportPaymentException` does not catch
ParseLineRaises ==
    /\ pc = "parse"
    /\ i <= Len(data)
    /\ i >= start_row
    /\ build_payment(data[i], i).kind
          \notin {"payment", "ParseFileError", "ImportPaymentException"}
    /\ Raise(build_payment(data[i], i).kind)

\* the loop over data ends; run() goes on to save_payments()
ParseEnd ==
    /\ pc = "parse"
    /\ i > Len(data)
    /\ pc' = "save"
    /\ UNCHANGED <<store, tx, file, data, i, payments, errors, created_payments, j, l,
                   events, outcome, runs, storeBefore, rerun>>

\* with transaction.atomic(): created_payments = []
BeginAtomic ==
    /\ pc = "save"
    /\ tx' = store
    /\ created_payments' = <<>>
    /\ j' = 1
    /\ l' = 0
    /\ pc' = "upsert"
    /\ UNCHANGED <<store, file, data, i, payments, errors, events, outcome, runs,
                   storeBefore, rerun>>

\* one turn of the first loop of save_payments
SavePayment ==
    /\ pc = "upsert"
    /\ j <= Len(payments)
    /\ LET r == save_payment(tx, payments[j])
       IN  /\ r.ok
           /\ tx' = r.db
           /\ created_payments' =
                 Append(created_payments, [row |-> r.payment, line |-> payments[j].line])
    /\ j' = j + 1
    /\ UNCHANGED <<store, file, data, i, payments, errors, l, events, pc, outcome, runs,
                   storeBefore, rerun>>

\* save_payment raises: the database refuses the statement, or several rows
\* have the key
SavePaymentRaises ==
    /\ pc = "upsert"
    /\ j <= Len(payments)
    /\ Raise(IF save_payment(tx, payments[j]).ok THEN "DatabaseError"
             ELSE "MultipleObjectsReturned")

\* the first loop ends
SaveEnd ==
    /\ pc = "upsert"
    /\ j > Len(payments)
    /\ j' = 1
    /\ l' = 0
    /\ pc' = "notify"
    /\ UNCHANGED <<store, tx, file, data, i, payments, errors, created_payments, events,
                   outcome, runs, storeBefore, rerun>>

Lodgers(payment) == ApartmentById(payment.row.apartment).lodgers

Notification(kind, payment, to) ==
    [kind |-> kind, payment |-> payment.row.id, line |-> payment.line, to |-> to]

\* the payer is notified and the loop over the lodgers is left out
NotifyPayerOnly ==
    /\ pc = "notify"
    /\ j <= Len(created_payments)
    /\ l = 0
    /\ events' = Append(events,
                        [kind |-> "payer", payment |-> created_payments[j].row.id,
                         line |-> created_payments[j].line,
                         to |-> created_payments[j].row.payer])
    /\ j' = j + 1
    /\ l' = 0
    /\ UNCHANGED <<store, tx, file, data, i, payments, errors, created_payments, pc,
                   outcome, runs, storeBefore, rerun>>

\* PaymentsEmailService.payer_new_communal_payment(payment)
NotifyPayer ==
    /\ pc = "notify"
    /\ j <= Len(created_payments)
    /\ l = 0
    /\ events' = Append(events,
                        Notification("payer", created_payments[j], created_payments[j].row.payer))
    /\ IF Lodgers(created_payments[j]) = <<>>
       THEN j' = j + 1 /\ l' = 0
       ELSE j' = j /\ l' = 1
    /\ UNCHANGED <<store, tx, file, data, i, payments, errors, created_payments, pc,
                   outcome, runs, storeBefore, rerun>>

\* PaymentsEmailService.lodger_new_communal_payment(payment, lodger.resident)
NotifyLodger ==
    /\ pc = "notify"
    /\ j <= Len(created_payments)
    /\ l >= 1
    /\ events' = Append(events,
                        Notification("lodger", created_payments[j],
                                     Lodgers(created_payments[j])[l]))
    /\ IF l = Len(Lodgers(created_payments[j]))
       THEN j' = j + 1 /\ l' = 0
       ELSE j' = j /\ l' = l + 1
    /\ UNCHANGED <<store, tx, file, data, i, payments, errors, created_payments, pc,
                   outcome, runs, storeBefore, rerun>>

\* the notification call raises, inside the atomic block
NotifyRaises ==
    /\ pc = "notify"
    /\ j <= Len(created_payments)
    /\ Raise("NotificationError")

\* the atomic block is left without exception: commit; run() returns self.errors
Commit ==
    /\ pc = "notify"
    /\ j > Len(created_payments)
    /\ store' = tx
    /\ events' = Append(events, [kind |-> "commit", payment |-> 0, line |-> 0, to |-> ""])
    /\ pc' = "done"
    /\ outcome' = "returned"
    /\ UNCHANGED <<tx, file, data, i, payments, errors, created_payments, j, l, runs,
                   storeBefore, rerun>>

Next ==
    \/ Start
    \/ ReadUnknownExtension
    \/ ReadRaises
    \/ ReadData
    \/ ReadOtherKind
    \/ SkipLine
    \/ ParseLine
    \/ ParseLineRaises
    \/ ParseEnd
    \/ BeginAtomic
    \/ SavePayment
    \/ SavePaymentRaises
    \/ SaveEnd
    \/ NotifyPayer
    \/ NotifyLodger
    \/ NotifyRaises
    \/ Commit

Spec == Init /\ [][Next]_vars

\* -------------------------------------------------- vocabulary of the claims
IsNotification(e) == e.kind \in {"payer", "lodger"}

Notifications == {n \in 1..Len(events) : IsNotification(events[n])}

Finished == pc = "done"

Returned == pc = "done" /\ outcome = "returned"

Csv == <<"c", "s", "v">>
Xlsx == <<"x", "l", "s", "x">>

\* the file reference is a path or an uploaded file, of a supported
\* extension, and reading it succeeds
ReadSucceeds(f) ==
    /\ f.kind \in {"str", "uploaded"}
    /\ Extension(f.name) \in {Csv, Xlsx}
    /\ f.readable

\* the parse phase of the running or finished run is over
PastParse == pc \in {"save", "upsert", "notify", "done"}

\* line n of data has been given to build_payment: the loop is past it, or
\* stopped on it
Handled(n) ==
    /\ n >= start_row
    /\ n <= Len(data)
    /\ \/ n < i
       \/ n = i /\ Finished /\ outcome = "AttributeError"

PaymentsOfLine(n) == {k \in 1..Len(payments) : payments[k].line = n}
ErrorsOfLine(n) == {k \in 1..Len(errors) : errors[k].line = n}

Persisted(db, p) ==
    \E r \in db : /\ SameKey(r, p)
                  /\ r.currency = p.currency

UniqueKeys(db) == \A r1, r2 \in db : SameKey(r1, r2) => r1 = r2

\* ------------------------------------------------------------------- C1
\* C1: every notification of a run is preceded by the commit of the run's
\* transaction, and a run that does not commit issues no notification.
C1_NotifyOnlyAfterCommit ==
    /\ \A n \in Notifications : \E m \in 1..(n - 1) : events[m].kind = "commit"
    /\ (Finished /\ outcome # "returned") => Notifications = {}

\* ------------------------------------------------------------------- C2
\* C2: when an upsert of the persist phase fails, the store after the run is
\* the store before the run, although upserts before the failing one had
\* succeeded; the run does not return, and the failure is not in self.errors,
\* which holds the row-level errors only.
C2_UpsertFailureRollsBack ==
    (Finished /\ outcome \in {"DatabaseError", "MultipleObjectsReturned"}) =>
        /\ store = storeBefore
        /\ tx = store
        /\ ~Returned
        /\ Notifications = {}
        /\ \A k \in 1..Len(errors) :
              errors[k].kind \in {"ParseFileError", "ImportPaymentException"}
        /\ Len(errors) + Len(payments) = Len(data) - 1

\* an upsert failed after an earlier upsert of the same run had changed the
\* rows the transaction sees
C2_Witness ==
    /\ Finished
    /\ outcome = "DatabaseError"
    /\ Len(created_payments) >= 1
    /\ \E k \in 1..Len(created_payments) : created_payments[k].row \notin storeBefore
    /\ errors # <<>>

\* ------------------------------------------------------------------- C4
\* C4: the store never holds two payments with the same {payer, apartment,
\* date, ext_number}; an upsert whose key is there updates currency, price
\* and description of that payment and creates nothing, an upsert with a new
\* key creates exactly one payment; and a run over the file of the run before
\* it, which had returned, leaves the store as that run left it.
C4_UpsertStep ==
    (pc = "upsert" /\ pc' = "upsert" /\ j' = j + 1) =>
        LET p == payments[j]
            found == {r \in tx : SameKey(r, p)}
            now == {r \in tx' : SameKey(r, p)}
        IN  /\ Cardinality(now) = 1
            /\ \A r \in now : /\ r.currency = p.currency
                              /\ r.price = p.price
                              /\ r.description = p.description
                              /\ \A o \in found : o.id = r.id
            /\ tx' \ now = tx \ found
            /\ Cardinality(tx') = Cardinality(tx) + (IF found = {} THEN 1 ELSE 0)

C4_OnePaymentPerKey ==
    /\ [](UniqueKeys(store) /\ UniqueKeys(tx))
    /\ []((rerun /\ Finished) => store = storeBefore)
    /\ [][C4_UpsertStep]_vars

\* the second run of a file that has two rows with one key and a row with
\* another has returned, and the store holds payments
C4_Witness ==
    /\ rerun
    /\ Returned
    /\ \E a, b \in 1..Len(payments) :
          a < b /\ SameKey(payments[a], payments[b]) /\ payments[a].price # payments[b].price
    /\ Cardinality(store) >= 2

\* ------------------------------------------------------------------- C5
\* C5: for a path or an uploaded file whose extension, lowercased, is neither
\* csv nor xlsx, the run returns exactly one error, a FileTypeError; it
\* parses no row, accumulates no record, changes no payment and issues no
\* notification.
C5_UnsupportedExtension ==
    (file.kind \in {"str", "uploaded"} /\ Extension(file.name) \notin {Csv, Xlsx}) =>
        /\ pc # "import" => errors = <<FileTypeError>>
        /\ payments = <<>>
        /\ created_payments = <<>>
        /\ data = <<>> /\ i = 0
        /\ Notifications = {}
        /\ store = storeBefore /\ tx = store
        /\ Finished => outcome = "returned"

\* a run over an uploaded file named a.csv.TXT, which holds valid rows, has
\* returned
C5_Witness ==
    /\ Returned
    /\ file.kind = "uploaded"
    /\ file.name = NameTxtUpper
    /\ \E n \in 2..Len(file.rows) : build_payment(file.rows[n], n).kind = "payment"
    /\ \E e \in 1..Len(events) : events[e].kind = "commit"

\* ------------------------------------------------------------------- C6
\* C6, as stated: in a run that commits, each payment entity the run upserted
\* has exactly one payer notification and exactly one lodger notification per
\* lodger of its apartment, the payer's first; a rejected row has none.
C6_OncePerEntity ==
    Returned =>
        /\ \A c \in 1..Len(created_payments) :
              LET id == created_payments[c].row.id
                  ap == ApartmentById(created_payments[c].row.apartment)
                  toPayer == {n \in Notifications :
                                 events[n].kind = "payer" /\ events[n].payment = id}
              IN  /\ Cardinality(toPayer) = 1
                  /\ \A q \in 1..Len(ap.lodgers) :
                        LET toLodger == {n \in Notifications :
                                            /\ events[n].kind = "lodger"
                                            /\ events[n].payment = id
                                            /\ events[n].to = ap.lodgers[q]}
                        IN  /\ Cardinality(toLodger) = 1
                            /\ \A n \in toLodger : \A m \in toPayer : m < n
        /\ \A n \in Notifications : PaymentsOfLine(events[n].line) # {}

\* C6, amended: in a run that commits, each accepted row (each record of
\* self.payments) has exactly one payer notification and exactly one lodger
\* notification per lodger of its apartment, the payer's before the
\* lodgers', all of them naming the payment with the row's key; a rejected
\* or skipped row has none.
C6_OncePerRecord ==
    Returned =>
        /\ \A k \in 1..Len(payments) :
              LET p == payments[k]
                  ap == ApartmentById(p.apartment)
                  toPayer == {n \in Notifications :
                                 events[n].kind = "payer" /\ events[n].line = p.line}
              IN  /\ Cardinality(toPayer) = 1
                  /\ \A n \in toPayer : events[n].to = p.payer
                  /\ \A q \in 1..Len(ap.lodgers) :
                        LET toLodger == {n \in Notifications :
                                            /\ events[n].kind = "lodger"
                                            /\ events[n].line = p.line
                                            /\ events[n].to = ap.lodgers[q]}
                        IN  /\ Cardinality(toLodger) = 1
                            /\ \A n \in toLodger : \A m \in toPayer : m < n
        /\ \A n \in Notifications :
              /\ Cardinality(PaymentsOfLine(events[n].line)) = 1
              /\ ErrorsOfLine(events[n].line) = {}
              /\ \A k \in PaymentsOfLine(events[n].line) :
                    /\ \E r \in store : SameKey(r, payments[k]) /\ r.id = events[n].payment
                    /\ events[n].kind = "lodger" =>
                          \E q \in 1..Len(ApartmentById(payments[k].apartment).lodgers) :
                              ApartmentById(payments[k].apartment).lodgers[q] = events[n].to

\* a run has committed two rows with one key, whose apartment has lodgers,
\* and rejected a row
C6_Witness ==
    /\ Returned
    /\ errors # <<>>
    /\ \E a, b \in 1..Len(payments) :
          /\ a < b
          /\ SameKey(payments[a], payments[b])
          /\ ApartmentById(payments[a].apartment).lodgers # <<>>

\* ------------------------------------------------------------------- C7
\* C7: when a notification call fails, the payments the run upserted stay in
\* the store and the run returns its error list.
C7_NotificationFailureKeepsPayments ==
    (Finished /\ outcome = "NotificationError") =>
        /\ \A k \in 1..Len(payments) : Persisted(store, payments[k])
        /\ Returned

\* ------------------------------------------------------------------- C3
\* C3: once a file is read, line 1 yields neither record nor error, every
\* line from 2 on yields exactly one record or exactly one error, so that
\* records + errors = lines - 1, the errors are in line order, no line stops
\* the lines after it from being parsed, and a run that returns has every
\* accumulated record in the store.
C3_EveryLineHandledOnce ==
    (ReadSucceeds(file) /\ data # <<>> /\ PastParse) =>
        /\ PaymentsOfLine(1) = {} /\ ErrorsOfLine(1) = {}
        /\ \A n \in start_row..Len(data) :
              Cardinality(PaymentsOfLine(n)) + Cardinality(ErrorsOfLine(n)) = 1
        /\ Len(payments) + Len(errors) = Len(data) - 1
        /\ \A a, b \in 1..Len(errors) : a < b => errors[a].line < errors[b].line
        /\ Returned => \A k \in 1..Len(payments) : Persisted(store, payments[k])

\* ------------------------------------------------------------------- C8
\* the five checks, as the row validator is specified
ColumnsOk(line) == Len(line) = cols
PriceOk(line) == ParseDecimal(Replace(Strip(Str(Cell(line, col_price))), ",", ".")).ok
DateOk(line) ==
    \/ Cell(line, col_month).t = "dt"
    \/ Strptime(Lower(Strip(Str(Cell(line, col_month))))).ok
PayerOk(line) == \E u \in Users : u.email = Lower(Strip(Str(Cell(line, col_email))))
ApartmentOk(line) ==
    \E a \in Apartments : a.account_number = Strip(Str(Cell(line, col_account_number)))

FirstFailingCheck(line) ==
    IF ~ColumnsOk(line) THEN "cols"
    ELSE IF ~PriceOk(line) THEN "price"
    ELSE IF ~DateOk(line) THEN "date"
    ELSE IF ~PayerOk(line) THEN "payer"
    ELSE IF ~ApartmentOk(line) THEN "apartment"
    ELSE ""

KindOfCheck(check) ==
    IF check \in {"cols", "price", "date"} THEN "ParseFileError" ELSE "ImportPaymentException"

\* C8: a line given to build_payment yields exactly one error, of the kind
\* of its first failing check in the order columns, price, date, payer,
\* apartment, or, when no check fails, exactly one record, whose payer and
\* apartment are resolved.
C8_FirstFailingCheckDecides ==
    \A n \in 1..Len(data) :
        Handled(n) =>
            LET check == FirstFailingCheck(data[n])
            IN  IF check = ""
                THEN /\ ErrorsOfLine(n) = {}
                     /\ Cardinality(PaymentsOfLine(n)) = 1
                     /\ \A k \in PaymentsOfLine(n) :
                           /\ \E u \in Users : u.id = payments[k].payer
                           /\ \E a \in Apartments : a.id = payments[k].apartment
                ELSE /\ PaymentsOfLine(n) = {}
                     /\ Cardinality(ErrorsOfLine(n)) = 1
                     /\ \A k \in ErrorsOfLine(n) :
                           /\ errors[k].check = check
                           /\ errors[k].kind = KindOfCheck(check)

\* ------------------------------------------------------------------- C9
\* C9: on a line of 8 columns with a parseable price, a date cell that is a
\* datetime is taken as it is; any other date cell is stringified, trimmed,
\* lowercased and parsed as DD-MM-YYYY, and when that fails the line's
\* ParseFileError is appended to self.errors and the next line is parsed.
C9_DateCellStringified ==
    \A n \in 1..Len(data) :
        (Handled(n) /\ ColumnsOk(data[n]) /\ PriceOk(data[n])) =>
            LET cell == Cell(data[n], col_month)
                parsed == Strptime(Lower(Strip(Str(cell))))
            IN  /\ (cell.t # "dt" /\ ~parsed.ok) =>
                      /\ \E k \in ErrorsOfLine(n) :
                            errors[k].kind = "ParseFileError" /\ errors[k].check = "date"
                      /\ pc = "parse" => i > n
                      /\ Finished => PastParse /\ i > Len(data)
                /\ \A k \in PaymentsOfLine(n) :
                      payments[k].date = (IF cell.t = "dt" THEN cell.d ELSE parsed.d)

\* ------------------------------------------------------------------ C10
\* C10: when format detection or reading fails, also for a file reference
\* that is neither a path nor an uploaded file, the run returns exactly one
\* error, a FileTypeError, and parses no row; no exception leaves run().
C10_ReadFailureIsFileTypeError ==
    (file # NoFile /\ ~ReadSucceeds(file) /\ pc # "import") =>
        /\ errors = <<FileTypeError>>
        /\ payments = <<>>
        /\ data = <<>> /\ i = 0
        /\ Finished => outcome = "returned"

====
